---- MODULE Spec2Model ----
(***************************************************************************)
(* Model of plant_bgc_predictor.io: the input-resolution helpers of        *)
(* commons.py, the Reader / Writer base classes and the six format         *)
(* adapters (csv, excel, h5, json, pickle, yaml) with their read_<format>  *)
(* and write_<format> free functions.                                      *)
(*                                                                         *)
(* The world is a small filesystem, one remote host, and the streams that  *)
(* are open in the process.  Every call of the package is one action; its  *)
(* outcome (return value or exception) is recorded in the variable last.   *)
(***************************************************************************)
EXTENDS Integers, FiniteSets, TLC

VARIABLES fs, net, streams, ad, last

vars == <<fs, net, streams, ad, last>>

-----------------------------------------------------------------------------
(* Bounds *)

\* stream objects alive in the process at the same time
MaxStreams == 1

-----------------------------------------------------------------------------
(* Names, references, values *)

\* a file whose directory exists: it can be created, truncated, removed
Creatable == {"a.dat"}
\* a file name whose parent directory does not exist
ParentMissing == {"nodir/b.dat"}
Paths == Creatable \cup ParentMissing
\* a string with a URL scheme that also spells a local file name: pathlib
\* reads "http://h/s" as the relative path http:/h/s
Shadowed == {"http://h/s"}
\* the names a file can exist under
Files == Creatable \cup Shadowed
\* strings with a non-empty URL scheme
Urls == {"http://h/x", "http://h/y.tar.gz"} \cup Shadowed
TarUrls == {"http://h/y.tar.gz"}
Names == Paths \cup Urls

Formats == {"csv", "excel", "h5", "json", "pickle", "yaml"}

\* FilePathOrBuffer: a str, a pathlib.Path or a stream object
StrRef(s) == [t |-> "str", s |-> s, id |-> 0]
PathRef(s) == [t |-> "Path", s |-> s, id |-> 0]
StreamRef(i) == [t |-> "stream", s |-> "", id |-> i]
NoRef == [t |-> "none", s |-> "", id |-> 0]

\* decoded values: a table, or a mapping from keys to array leaves
Keys == {"data", "k1"}
EmptyTable == [isMap |-> FALSE, keys |-> {}, leaf |-> "empty_table"]
MixedTable == [isMap |-> FALSE, keys |-> {}, leaf |-> "mixed_table"]
MapOf(K) == [isMap |-> TRUE, keys |-> K, leaf |-> "nested"]
NoValue == [isMap |-> FALSE, keys |-> {}, leaf |-> "none"]
Tables == {EmptyTable, MixedTable}
Mappings == {MapOf({}), MapOf({"k1"}), MapOf(Keys)}
Values == Tables \cup Mappings

\* file contents: absent, empty (just truncated), or the encoding of a value.
\* payload is what the file holds; src remembers the value handed to the
\* writer and is never read by a decoder.
Absent == [fmt |-> "absent", payload |-> NoValue, src |-> NoValue]
Empty == [fmt |-> "empty", payload |-> NoValue, src |-> NoValue]
NoData == [fmt |-> "nodata", payload |-> NoValue, src |-> NoValue]
Enc(f, payload, v) == [fmt |-> f, payload |-> payload, src |-> v]
\* what the remote host serves on GET: a document, or a gzip tar archive
\* under a name that ends in .tar.gz
RemoteContent(u) ==
    IF u \in {"http://h/y.tar.gz"}
    THEN Enc("tar.gz", MapOf({"k1"}), MapOf({"k1"}))
    ELSE Enc("json", MapOf({"k1"}), MapOf({"k1"}))
\* tar.extractfile(tar.getnames()[0]): the content of the first member
FirstMember(c) == Enc("json", c.payload, c.src)

\* outcomes of a call
Ok == "ok"
FileNotFoundError == "FileNotFoundError"
TypeError == "TypeError"
AttributeError == "AttributeError"
RequestException == "RequestException"
UnresolvedSource == "ValueError: No file path or buffer or url provided."
CannotWriteUrl == "ValueError: Cannot write to a url."
CannotReadUrl == "ValueError: Cannot read from a url."
ClosedFile == "ValueError: I/O operation on closed file."
UnsupportedOperation == "io.UnsupportedOperation"
DecodeError == "DecodeError"
EncodeError == "EncodeError"
\* an exception raised by the caller's own code inside a "with" block
BlockError == "KeyError"

ReadModes == {"r", "rb"}
WriteModes == {"w", "wb"}
Modes == ReadModes \cup WriteModes

-----------------------------------------------------------------------------
(* The process's world: files and streams *)

\* stream objects live in the slots 1..MaxStreams; slot 0 stands for "no
\* stream" and always holds FreeSlot.  full is set when a call needed a
\* stream object and no slot was free (such a step is not taken).
Slots == 1..MaxStreams

FreeSlot == [name |-> "", mode |-> "none", kind |-> "free", closed |-> TRUE,
             owner |-> "nobody", closedBy |-> "nobody",
             pending |-> [fmt |-> "nodata",
                          payload |-> [isMap |-> FALSE, keys |-> {}, leaf |-> "none"],
                          src |-> [isMap |-> FALSE, keys |-> {}, leaf |-> "none"]]]

World == [fs |-> fs, streams |-> streams, full |-> FALSE]

FreeSlots(w) == {i \in Slots : w.streams[i].kind = "free"}

\* the slot the next stream object will live in (0 if there is none)
NextId(w) ==
    IF FreeSlots(w) = {} THEN 0
    ELSE CHOOSE i \in FreeSlots(w) : \A j \in FreeSlots(w) : i <= j

Exists(w, s) == s \in Files /\ w.fs[s] # Absent

\* a stream object; kind "text" is a TextIOWrapper (it has a .buffer
\* attribute), "binary" a BufferedReader/Writer, "memory" a StringIO/BytesIO
Stream(name, mode, kind, owner, data) ==
    [name |-> name, mode |-> mode, kind |-> kind, closed |-> FALSE,
     owner |-> owner, closedBy |-> "nobody", pending |-> data]

NewStream(w, st) ==
    IF FreeSlots(w) = {} THEN [w EXCEPT !.full = TRUE]
    ELSE [w EXCEPT !.streams[NextId(w)] = st]

KindOfMode(mode) == IF mode \in {"rb", "wb"} THEN "binary" ELSE "text"

\* builtin open(file, mode)
Open(w, ref, mode, owner) ==
    IF ref.t = "stream"
    THEN [w |-> w, out |-> TypeError, id |-> 0]
    ELSE IF mode \in WriteModes
    THEN IF ref.s \notin Files
         THEN [w |-> w, out |-> FileNotFoundError, id |-> 0]
         ELSE [w |-> NewStream([w EXCEPT !.fs[ref.s] = Empty],
                               Stream(ref.s, mode, KindOfMode(mode), owner, NoData)),
               out |-> Ok, id |-> NextId(w)]
    ELSE IF ~Exists(w, ref.s)
         THEN [w |-> w, out |-> FileNotFoundError, id |-> 0]
         ELSE [w |-> NewStream(w, Stream(ref.s, mode, KindOfMode(mode), owner, NoData)),
               out |-> Ok, id |-> NextId(w)]

\* stream.close(): flushes what was written, idempotent
Close(w, i, by) ==
    LET st == w.streams[i] IN
    IF st.closed THEN w
    ELSE [w EXCEPT !.fs = IF st.pending # NoData /\ Exists(w, st.name)
                          THEN [w.fs EXCEPT ![st.name] = st.pending]
                          ELSE w.fs,
                   !.streams = [w.streams EXCEPT ![i].closed = TRUE,
                                                 ![i].closedBy = by,
                                                 ![i].pending = IF st.kind = "memory" THEN @ ELSE NoData]]

\* what a reader of the stream sees
StreamContent(w, i) ==
    LET st == w.streams[i] IN
    IF st.kind = "memory" THEN st.pending
    ELSE IF Exists(w, st.name) THEN w.fs[st.name] ELSE Empty

-----------------------------------------------------------------------------
(* commons.py *)

\* urlparse(s).scheme != ''
HasScheme(s) == s \in Urls

\* the answer of requests.head(s) / requests.get(s): a status code, or "exc"
\* when the request raises a RequestException (host unreachable)
requests_head(s) == net

\* is_url asking the host about every string, with or without a scheme
is_url_heads_any_str(ref) == IF ref.t = "str" THEN 1 ELSE 0

\* the number of HEAD requests is_url issues
is_url_heads(ref) == IF ref.t = "str" /\ HasScheme(ref.s) THEN 1 ELSE 0

\* is_url without its "except requests.exceptions.RequestException" clause
is_url_no_except(ref) ==
    IF ref.t # "str" THEN [out |-> Ok, ret |-> FALSE]
    ELSE IF HasScheme(ref.s)
         THEN IF requests_head(ref.s) = "exc" THEN [out |-> RequestException, ret |-> FALSE]
              ELSE IF requests_head(ref.s) = "200" THEN [out |-> Ok, ret |-> TRUE]
              ELSE [out |-> Ok, ret |-> FALSE]
         ELSE [out |-> Ok, ret |-> FALSE]

\* is_url: how the call ends (out) and what it returns (ret)
is_url_call(ref) ==
    IF ref.t # "str" THEN [out |-> Ok, ret |-> FALSE]
    ELSE IF HasScheme(ref.s)
         THEN IF requests_head(ref.s) = "exc" THEN [out |-> Ok, ret |-> FALSE]
              ELSE IF requests_head(ref.s) = "200" THEN [out |-> Ok, ret |-> TRUE]
              ELSE [out |-> Ok, ret |-> FALSE]
         ELSE [out |-> Ok, ret |-> FALSE]

is_url(ref) == is_url_call(ref).ret

is_buffer(ref) == ref.t = "stream"

\* is_path: how the call ends and what it returns; Path(stream) raises
is_path_call(w, ref) ==
    IF ref.t = "Path" THEN [out |-> Ok, ret |-> TRUE]
    ELSE IF ref.t = "stream" THEN [out |-> TypeError, ret |-> FALSE]
    ELSE IF Exists(w, ref.s) THEN [out |-> Ok, ret |-> TRUE]
    ELSE [out |-> Ok, ret |-> FALSE]

is_path(w, ref) == is_path_call(w, ref).ret

is_gzip_tarball_path(ref) == ref.s \in TarUrls

\* get_handle_to_write without its is_url branch
get_handle_to_write_no_url_check(w, ref, mode) ==
    IF is_buffer(ref)
    THEN [w |-> w, out |-> Ok, id |-> ref.id, opens |-> 0, heads |-> 0]
    ELSE LET o == Open(w, ref, mode, "caller") IN
         [w |-> o.w, out |-> o.out, id |-> o.id, opens |-> 1, heads |-> 0]

get_handle_to_write(w, ref, mode) ==
    IF is_buffer(ref)
    THEN [w |-> w, out |-> Ok, id |-> ref.id, opens |-> 0, heads |-> 0]
    ELSE IF is_url(ref)
    THEN [w |-> w, out |-> CannotWriteUrl, id |-> 0, opens |-> 0, heads |-> is_url_heads(ref)]
    ELSE LET o == Open(w, ref, mode, "caller") IN
         [w |-> o.w, out |-> o.out, id |-> o.id, opens |-> 1, heads |-> is_url_heads(ref)]

get_handle_to_read(w, ref, mode) ==
    IF is_buffer(ref)
    THEN [w |-> w, out |-> Ok, id |-> ref.id, heads |-> 0, gets |-> 0]
    ELSE IF is_path(w, ref)
    THEN LET o == Open(w, ref, mode, "caller") IN
         [w |-> o.w, out |-> o.out, id |-> o.id, heads |-> 0, gets |-> 0]
    ELSE IF is_url(ref)
    THEN LET data == RemoteContent(ref.s) IN
         IF is_gzip_tarball_path(ref)
         THEN [w |-> NewStream(w, Stream("", "rb", "memory", "caller", FirstMember(data))),
               out |-> Ok, id |-> NextId(w), heads |-> 1, gets |-> 1]
         ELSE IF mode = "r"
         THEN [w |-> NewStream(w, Stream("", "r", "memory", "caller", data)),
               out |-> Ok, id |-> NextId(w), heads |-> 1, gets |-> 1]
         ELSE IF mode = "rb"
         THEN [w |-> NewStream(w, Stream("", "rb", "memory", "caller", data)),
               out |-> Ok, id |-> NextId(w), heads |-> 1, gets |-> 1]
         ELSE [w |-> w, out |-> CannotReadUrl, id |-> 0, heads |-> 1, gets |-> 1]
    ELSE [w |-> w, out |-> UnresolvedSource, id |-> 0, heads |-> is_url_heads(ref), gets |-> 0]

\* hasattr(ref, 'buffer')
HasBufferAttr(w, ref) == ref.t = "stream" /\ w.streams[ref.id].kind = "text"

get_buffer(w, ref, mode, owner) ==
    IF HasBufferAttr(w, ref)
    THEN [w |-> w, out |-> Ok, id |-> ref.id]
    ELSE Open(w, ref, mode, owner)

\* isinstance(ref, typing.TextIO / typing.IO) is false for every io stream,
\* so a stream reaches Path(stream), which raises TypeError
get_path(ref) ==
    IF ref.t = "stream"
    THEN [out |-> TypeError, path |-> NoRef]
    ELSE [out |-> Ok, path |-> PathRef(ref.s)]

-----------------------------------------------------------------------------
(* The format libraries (pandas, openpyxl, h5py, json, pickle, yaml) *)

\* values a library accepts: tables for the tabular formats, mappings for
\* the document formats, anything for pickle and h5py datasets
Encodable(fmt, v) ==
    CASE fmt \in {"csv", "excel"} -> ~v.isMap
      [] fmt \in {"json", "yaml"} -> v.isMap
      [] OTHER -> TRUE

\* formats whose library reads and writes bytes
BinaryFormats == {"excel", "pickle"}

Decode(fmt, c) ==
    IF c.fmt = fmt THEN [out |-> Ok, val |-> c.payload]
    ELSE [out |-> DecodeError, val |-> NoValue]

\* library load from a stream object
LibLoad(w, fmt, i) ==
    LET st == w.streams[i] IN
    IF st.closed THEN [out |-> ClosedFile, val |-> NoValue]
    ELSE IF st.mode \notin ReadModes THEN [out |-> UnsupportedOperation, val |-> NoValue]
    ELSE IF fmt \in BinaryFormats /\ st.mode # "rb" THEN [out |-> DecodeError, val |-> NoValue]
    ELSE Decode(fmt, StreamContent(w, i))

\* library load from a file name (the library opens and closes its own handle)
LibLoadPath(w, fmt, s) ==
    IF s \in Urls
    THEN IF requests_head(s) = "200" THEN Decode(fmt, RemoteContent(s))
         ELSE [out |-> RequestException, val |-> NoValue]
    ELSE IF ~Exists(w, s) THEN [out |-> FileNotFoundError, val |-> NoValue]
    ELSE Decode(fmt, w.fs[s])

\* library dump to a stream object: the data reaches the file on flush
LibDump(w, fmt, i, payload, v) ==
    LET st == w.streams[i] IN
    IF st.closed THEN [w |-> w, out |-> ClosedFile]
    ELSE IF st.mode \notin WriteModes THEN [w |-> w, out |-> UnsupportedOperation]
    ELSE IF ~Encodable(fmt, v) THEN [w |-> w, out |-> EncodeError]
    ELSE IF fmt \in BinaryFormats /\ st.mode # "wb" THEN [w |-> w, out |-> EncodeError]
    ELSE [w |-> [w EXCEPT !.streams[i].pending = Enc(fmt, payload, v)], out |-> Ok]

\* library dump to a file name
LibDumpPath(w, fmt, s, payload, v) ==
    IF ~Encodable(fmt, v) THEN [w |-> w, out |-> EncodeError]
    ELSE IF s \notin Files THEN [w |-> w, out |-> FileNotFoundError]
    ELSE [w |-> [w EXCEPT !.fs[s] = Enc(fmt, payload, v)], out |-> Ok]

-----------------------------------------------------------------------------
(* reader.py, writer.py *)

NoAdapter == [cls |-> "none", fmt |-> "none", path |-> NoRef, buf |-> 0]

\* the mode each adapter's constructor passes to Reader.__init__
ReaderMode(fmt) == IF fmt \in {"excel", "pickle"} THEN "rb" ELSE "r"
\* the mode each adapter's constructor passes to Writer.__init__
WriterMode(fmt) == IF fmt = "pickle" THEN "wb" ELSE "w"

\* the adapters whose constructor hands the caller's own mode option on
ReaderModeFormats == {"csv", "yaml"}
WriterModeFormats == {"csv", "excel", "json", "yaml"}

\* Reader.__init__ acquiring self.buffer in the given mode
ReaderInitMode(w, fmt, ref, mode) ==
    LET b == get_buffer(w, ref, mode, "adapter") IN
    IF b.out = Ok
    THEN [w |-> b.w, out |-> Ok,
          ad |-> [cls |-> "Reader", fmt |-> fmt, path |-> ref, buf |-> b.id]]
    ELSE [w |-> w, out |-> b.out, ad |-> NoAdapter]

\* Reader.__init__; skip is "get_buffer" in kwargs
ReaderInit(w, fmt, ref, skip) ==
    IF skip
    THEN [w |-> w, out |-> Ok,
          ad |-> [cls |-> "Reader", fmt |-> fmt, path |-> ref, buf |-> 0]]
    ELSE ReaderInitMode(w, fmt, ref, ReaderMode(fmt))

\* a Writer.__init__ that opens its target for reading, whatever the mode
WriterInitMode_no_truncate(w, fmt, ref, mode) ==
    LET p == get_path(ref) IN
    IF p.out # Ok THEN [w |-> w, out |-> p.out, ad |-> NoAdapter]
    ELSE LET b == get_buffer(w, ref, "r", "adapter") IN
         IF b.out = Ok
         THEN [w |-> b.w, out |-> Ok,
               ad |-> [cls |-> "Writer", fmt |-> fmt, path |-> p.path, buf |-> b.id]]
         ELSE [w |-> w, out |-> b.out, ad |-> NoAdapter]

\* Writer.__init__ with the given mode
WriterInitMode(w, fmt, ref, mode) ==
    LET p == get_path(ref) IN
    IF p.out # Ok THEN [w |-> w, out |-> p.out, ad |-> NoAdapter]
    ELSE LET b == get_buffer(w, ref, mode, "adapter") IN
         IF b.out = Ok
         THEN [w |-> b.w, out |-> Ok,
               ad |-> [cls |-> "Writer", fmt |-> fmt, path |-> p.path, buf |-> b.id]]
         ELSE [w |-> w, out |-> b.out, ad |-> NoAdapter]

\* Writer.__init__ with the mode its adapter passes by default
WriterInit(w, fmt, ref) == WriterInitMode(w, fmt, ref, WriterMode(fmt))

\* Reader.close_buffer / Writer.close_buffer: self.buffer.close()
close_buffer(w, a) ==
    IF a.buf = 0 THEN [w |-> w, out |-> AttributeError]
    ELSE [w |-> Close(w, a.buf, "adapter"), out |-> Ok]

\* Reader.__exit__ / Writer.__exit__ after a block that ended with body_out:
\* self.close_buffer(); return False (the block's exception is re-raised)
exit_block(w, a, body_out) ==
    LET c == close_buffer(w, a) IN
    IF c.out # Ok THEN [w |-> c.w, out |-> c.out]
    ELSE [w |-> c.w, out |-> body_out]

-----------------------------------------------------------------------------
(* The adapters' read methods: each returns the world after the call, the  *)
(* outcome and the value returned                                          *)

Raise(w, exc) == [w |-> w, out |-> exc, val |-> NoValue, loads |-> 0]

\* the outcome of one call of the library's load
Loaded(w, r) == [w |-> w, out |-> r.out, val |-> r.val, loads |-> 1]

\* CSVReader.read: pd.read_csv(self.path, **self.kwargs)
CSVReader_read(w, a) ==
    Loaded(w, IF a.path.t = "stream" THEN LibLoad(w, "csv", a.path.id)
              ELSE LibLoadPath(w, "csv", a.path.s))

\* ExcelReader.read: pd.read_excel(self.buffer, **self.kwargs)
ExcelReader_read(w, a) ==
    IF a.buf = 0 THEN Raise(w, AttributeError)
    ELSE Loaded(w, LibLoad(w, "excel", a.buf))

\* an H5Reader.read that returns the mapping however many datasets there are
H5Result_keep_mapping(d) == d

\* the value H5Reader.read returns for the datasets of a file
H5Result(d) ==
    IF Cardinality(d.keys) = 1
    THEN [isMap |-> FALSE, keys |-> {}, leaf |-> d.leaf]
    ELSE d

\* H5Reader.read: h5py.File(self.buffer.name, "r")
H5Reader_read(w, a) ==
    IF a.buf = 0 THEN Raise(w, AttributeError)
    ELSE LET r == LibLoadPath(w, "h5", w.streams[a.buf].name) IN
         IF r.out # Ok THEN Loaded(w, r)
         ELSE [w |-> w, out |-> Ok, val |-> H5Result(r.val), loads |-> 1]

\* a JSONReader.read that calls json.load a second time when it fails
JSONReader_read_retry(w, a) ==
    IF a.buf = 0 THEN Raise(w, AttributeError)
    ELSE IF LibLoad(w, "json", a.buf).out = Ok THEN Loaded(w, LibLoad(w, "json", a.buf))
    ELSE [Loaded(w, LibLoad(w, "json", a.buf)) EXCEPT !.loads = 2]

\* JSONReader.read: json.load(self.buffer)
JSONReader_read(w, a) ==
    IF a.buf = 0 THEN Raise(w, AttributeError)
    ELSE Loaded(w, LibLoad(w, "json", a.buf))

\* a PickleReader.read without its self.close_buffer()
PickleReader_read_no_close(w, a) ==
    IF a.buf = 0 THEN Raise(w, AttributeError)
    ELSE Loaded(w, LibLoad(w, "pickle", a.buf))

\* PickleReader.read: load, then self.close_buffer()
PickleReader_read(w, a) ==
    IF a.buf = 0 THEN Raise(w, AttributeError)
    ELSE LET r == LibLoad(w, "pickle", a.buf) IN
         IF r.out # Ok THEN Loaded(w, r)
         ELSE Loaded(close_buffer(w, a).w, r)

\* YAMLReader.read: get_handle_to_read(self.buffer), load inside "with handle"
\* (entering the block fails on a closed stream)
YAMLReader_read(w, a) ==
    IF a.buf = 0 THEN Raise(w, AttributeError)
    ELSE LET h == get_handle_to_read(w, StreamRef(a.buf), "r") IN
         IF h.out # Ok THEN Raise(h.w, h.out)
         ELSE IF h.w.streams[h.id].closed THEN Raise(h.w, ClosedFile)
         ELSE Loaded(Close(h.w, h.id, "adapter"), LibLoad(h.w, "yaml", h.id))

Reader_read(w, a) ==
    CASE a.fmt = "csv" -> CSVReader_read(w, a)
      [] a.fmt = "excel" -> ExcelReader_read(w, a)
      [] a.fmt = "h5" -> H5Reader_read(w, a)
      [] a.fmt = "json" -> JSONReader_read(w, a)
      [] a.fmt = "pickle" -> PickleReader_read(w, a)
      [] a.fmt = "yaml" -> YAMLReader_read(w, a)

-----------------------------------------------------------------------------
(* The adapters' write methods: each returns the world after the call, the *)
(* outcome and the flag returned ("True", "False", or "none" on raise)     *)

RaiseW(w, exc) == [w |-> w, out |-> exc, flag |-> "none"]

\* try: <dump>; return True  except FileNotFoundError: return False
TryDump(d) ==
    IF d.out = Ok THEN [w |-> d.w, out |-> Ok, flag |-> "True"]
    ELSE IF d.out = FileNotFoundError THEN [w |-> d.w, out |-> Ok, flag |-> "False"]
    ELSE RaiseW(d.w, d.out)

\* CSVWriter.write: df.to_csv(self.buffer, **self.kwargs)
CSVWriter_write(w, a, v) == TryDump(LibDump(w, "csv", a.buf, v, v))

\* ExcelWriter.write: object_to_be_written.to_excel(self.path, **self.kwargs)
ExcelWriter_write(w, a, v) == TryDump(LibDumpPath(w, "excel", a.path.s, v, v))

\* the datasets H5Writer.write creates for a value
H5Datasets(v) ==
    IF v.isMap THEN v
    ELSE [isMap |-> TRUE, keys |-> {"data"}, leaf |-> v.leaf]

\* H5Writer.write: h5py.File(self.buffer.name, "w")
H5Writer_write(w, a, v) ==
    LET d == LibDumpPath(w, "h5", w.streams[a.buf].name, H5Datasets(v), v) IN
    IF d.out = Ok THEN [w |-> d.w, out |-> Ok, flag |-> "True"]
    ELSE RaiseW(d.w, d.out)

\* JSONWriter.write: json.dump(object_to_be_written, self.buffer)
JSONWriter_write(w, a, v) == TryDump(LibDump(w, "json", a.buf, v, v))

\* PickleWriter.write: dump, then self.close_buffer()
PickleWriter_write(w, a, v) ==
    LET d == LibDump(w, "pickle", a.buf, v, v) IN
    IF d.out # Ok THEN RaiseW(d.w, d.out)
    ELSE [w |-> close_buffer(d.w, a).w, out |-> Ok, flag |-> "True"]

\* YAMLWriter.write: get_handle_to_write(self.buffer), dump inside "with handle"
YAMLWriter_write(w, a, v) ==
    LET h == get_handle_to_write(w, StreamRef(a.buf), "w") IN
    IF h.out # Ok THEN RaiseW(h.w, h.out)
    ELSE LET d == LibDump(h.w, "yaml", h.id, v, v) IN
         IF d.out # Ok THEN RaiseW(Close(d.w, h.id, "adapter"), d.out)
         ELSE [w |-> Close(d.w, h.id, "adapter"), out |-> Ok, flag |-> "True"]

Writer_write(w, a, v) ==
    CASE a.fmt = "csv" -> CSVWriter_write(w, a, v)
      [] a.fmt = "excel" -> ExcelWriter_write(w, a, v)
      [] a.fmt = "h5" -> H5Writer_write(w, a, v)
      [] a.fmt = "json" -> JSONWriter_write(w, a, v)
      [] a.fmt = "pickle" -> PickleWriter_write(w, a, v)
      [] a.fmt = "yaml" -> YAMLWriter_write(w, a, v)

-----------------------------------------------------------------------------
(* The free functions read_<format> *)

read_csv(w, ref) ==
    LET i == ReaderInit(w, "csv", ref, FALSE) IN
    IF i.out # Ok THEN Raise(i.w, i.out)
    ELSE CSVReader_read(i.w, i.ad)

read_excel(w, ref) ==
    LET i == ReaderInit(w, "excel", ref, FALSE) IN
    IF i.out # Ok THEN Raise(i.w, i.out)
    ELSE LET r == ExcelReader_read(i.w, i.ad) IN
         IF r.out # Ok THEN r
         ELSE [w |-> close_buffer(r.w, i.ad).w, out |-> Ok, val |-> r.val, loads |-> r.loads]

read_h5(w, ref) ==
    LET i == ReaderInit(w, "h5", ref, FALSE) IN
    IF i.out # Ok THEN Raise(i.w, i.out)
    ELSE H5Reader_read(i.w, i.ad)

read_json(w, ref) ==
    LET i == ReaderInit(w, "json", ref, FALSE) IN
    IF i.out # Ok THEN Raise(i.w, i.out)
    ELSE LET r == JSONReader_read(i.w, i.ad) IN
         IF r.out # Ok THEN r
         ELSE [w |-> close_buffer(r.w, i.ad).w, out |-> Ok, val |-> r.val, loads |-> r.loads]

read_pickle(w, ref) ==
    LET i == ReaderInit(w, "pickle", ref, FALSE) IN
    IF i.out # Ok THEN Raise(i.w, i.out)
    ELSE PickleReader_read(i.w, i.ad)

\* "with YAMLReader(...) as reader": __exit__ closes on every exit path
read_yaml(w, ref) ==
    LET i == ReaderInit(w, "yaml", ref, FALSE) IN
    IF i.out # Ok THEN Raise(i.w, i.out)
    ELSE LET r == YAMLReader_read(i.w, i.ad) IN
         [w |-> close_buffer(r.w, i.ad).w, out |-> r.out, val |-> r.val, loads |-> r.loads]

-----------------------------------------------------------------------------
(* The free functions write_<format> *)

write_csv(w, ref, v) ==
    LET i == WriterInit(w, "csv", ref) IN
    IF i.out # Ok THEN RaiseW(i.w, i.out)
    ELSE LET r == CSVWriter_write(i.w, i.ad, v) IN
         IF r.out # Ok THEN r
         ELSE [w |-> close_buffer(r.w, i.ad).w, out |-> Ok, flag |-> r.flag]

write_excel(w, ref, v) ==
    LET i == WriterInit(w, "excel", ref) IN
    IF i.out # Ok THEN RaiseW(i.w, i.out)
    ELSE LET r == ExcelWriter_write(i.w, i.ad, v) IN
         IF r.out # Ok THEN r
         ELSE [w |-> close_buffer(r.w, i.ad).w, out |-> Ok, flag |-> r.flag]

write_h5(w, ref, v) ==
    LET i == WriterInit(w, "h5", ref) IN
    IF i.out # Ok THEN RaiseW(i.w, i.out)
    ELSE H5Writer_write(i.w, i.ad, v)

write_json(w, ref, v) ==
    LET i == WriterInit(w, "json", ref) IN
    IF i.out # Ok THEN RaiseW(i.w, i.out)
    ELSE LET r == JSONWriter_write(i.w, i.ad, v) IN
         IF r.out # Ok THEN r
         ELSE [w |-> close_buffer(r.w, i.ad).w, out |-> Ok, flag |-> r.flag]

write_pickle(w, ref, v) ==
    LET i == WriterInit(w, "pickle", ref) IN
    IF i.out # Ok THEN RaiseW(i.w, i.out)
    ELSE PickleWriter_write(i.w, i.ad, v)

\* "with YAMLWriter(...) as writer": __exit__ closes on every exit path
write_yaml(w, ref, v) ==
    LET i == WriterInit(w, "yaml", ref) IN
    IF i.out # Ok THEN RaiseW(i.w, i.out)
    ELSE LET r == YAMLWriter_write(i.w, i.ad, v) IN
         [w |-> close_buffer(r.w, i.ad).w, out |-> r.out, flag |-> r.flag]

-----------------------------------------------------------------------------
(* State machine *)

\* the references a caller can pass in the current state
\* the caller can pass the streams it holds itself
StreamRefs == {StreamRef(i) : i \in {j \in Slots : streams[j].owner = "caller"}}
Refs == {StrRef(s) : s \in Names} \cup {PathRef(s) : s \in Creatable} \cup StreamRefs
\* the references passed to the adapters and the free functions (one URL:
\* they never look at a URL's suffix)
IORefs == {StrRef(s) : s \in Names \ (TarUrls \cup Shadowed)} \cup {PathRef(s) : s \in Creatable}
            \cup StreamRefs

\* the slots a call filled, and those of them it left open
Opened(w1) == {i \in Slots : streams[i].kind = "free" /\ w1.streams[i].kind # "free"}
Leaked(w1) == {i \in Opened(w1) : ~w1.streams[i].closed}

\* the record of the last call: what was called with what, how it ended,
\* which streams it opened / left open and whether it changed any file;
\* gets / loads count the GET requests and the library decodes of the call,
\* existed tells whether the referenced file was there when the call began,
\* path is the Path a call returned, body what a scoped block did
Call(op, fmt, ref, mode, arg, w1, out, val, flag, handle, heads, opens) ==
    [op |-> op, fmt |-> fmt, ref |-> ref, mode |-> mode, arg |-> arg,
     out |-> out, val |-> val, flag |-> flag, handle |-> handle,
     heads |-> heads, opens |-> opens,
     opened |-> Opened(w1), leaked |-> Leaked(w1),
     touched |-> w1.fs # fs,
     existed |-> Exists(World, ref.s),
     gets |-> 0, loads |-> 0, path |-> NoRef, body |-> "none"]

NoCall ==
    [op |-> "none", fmt |-> "none", ref |-> NoRef, mode |-> "none", arg |-> NoValue,
     out |-> Ok, val |-> NoValue, flag |-> "none", handle |-> 0,
     heads |-> 0, opens |-> 0, opened |-> {}, leaked |-> {}, touched |-> FALSE,
     existed |-> FALSE, gets |-> 0, loads |-> 0, path |-> NoRef, body |-> "none"]

Commit(w) ==
    /\ ~w.full
    /\ fs' = w.fs
    /\ streams' = w.streams

\* a closed stream that only a finished call's adapter referred to is garbage
DropClosed(w) ==
    [w EXCEPT !.streams = [i \in DOMAIN w.streams |->
                              IF w.streams[i].owner = "adapter" /\ w.streams[i].closed
                              THEN FreeSlot ELSE w.streams[i]]]

\* the answers the host can give to a request
Answers == {"200", "404", "exc"}

Init ==
    /\ fs = [s \in Files |-> Absent]
    /\ net \in Answers
    /\ streams = [i \in 0..MaxStreams |-> FreeSlot]
    /\ ad = NoAdapter
    /\ last = NoCall

ReadCall(fmt, ref, r) ==
    /\ Commit(DropClosed(r.w))
    /\ last' = Call("read", fmt, ref, ReaderMode(fmt), NoValue, r.w, r.out, r.val, "none", 0, 0, 0)
    /\ UNCHANGED <<net, ad>>

WriteCall(fmt, ref, v, r) ==
    /\ Commit(DropClosed(r.w))
    /\ last' = Call("write", fmt, ref, WriterMode(fmt), v, r.w, r.out, NoValue, r.flag, 0, 0, 0)
    /\ UNCHANGED <<net, ad>>

ReadCsv == \E ref \in IORefs : ReadCall("csv", ref, read_csv(World, ref))
ReadExcel == \E ref \in IORefs : ReadCall("excel", ref, read_excel(World, ref))
ReadH5 == \E ref \in IORefs : ReadCall("h5", ref, read_h5(World, ref))
ReadJson == \E ref \in IORefs : ReadCall("json", ref, read_json(World, ref))
ReadPickle == \E ref \in IORefs : ReadCall("pickle", ref, read_pickle(World, ref))
ReadYaml == \E ref \in IORefs : ReadCall("yaml", ref, read_yaml(World, ref))

WriteCsv == \E ref \in IORefs, v \in Values : WriteCall("csv", ref, v, write_csv(World, ref, v))
WriteExcel == \E ref \in IORefs, v \in Values : WriteCall("excel", ref, v, write_excel(World, ref, v))
WriteH5 == \E ref \in IORefs, v \in Values : WriteCall("h5", ref, v, write_h5(World, ref, v))
WriteJson == \E ref \in IORefs, v \in Values : WriteCall("json", ref, v, write_json(World, ref, v))
WritePickle == \E ref \in IORefs, v \in Values : WriteCall("pickle", ref, v, write_pickle(World, ref, v))
WriteYaml == \E ref \in IORefs, v \in Values : WriteCall("yaml", ref, v, write_yaml(World, ref, v))

\* a direct call of commons.is_url
IsUrl ==
    \E ref \in Refs :
       /\ last' = Call("is_url", "none", ref, "none", NoValue, World, is_url_call(ref).out,
                       NoValue,
                       IF is_url_call(ref).out # Ok THEN "none"
                       ELSE IF is_url_call(ref).ret THEN "True" ELSE "False",
                       0, is_url_heads(ref), 0)
       /\ UNCHANGED <<fs, net, streams, ad>>

\* a direct call of commons.is_buffer
IsBuffer ==
    \E ref \in Refs :
       /\ last' = Call("is_buffer", "none", ref, "none", NoValue, World, Ok, NoValue,
                       IF is_buffer(ref) THEN "True" ELSE "False", 0, 0, 0)
       /\ UNCHANGED <<fs, net, streams, ad>>

\* a direct call of commons.is_path
IsPath ==
    \E ref \in Refs :
       /\ last' = Call("is_path", "none", ref, "none", NoValue, World,
                       is_path_call(World, ref).out, NoValue,
                       IF is_path_call(World, ref).out # Ok THEN "none"
                       ELSE IF is_path_call(World, ref).ret THEN "True" ELSE "False",
                       0, 0, 0)
       /\ UNCHANGED <<fs, net, streams, ad>>

\* a direct call of commons.get_handle_to_read
GetHandleToRead ==
    \E ref \in Refs, mode \in Modes :
       LET r == get_handle_to_read(World, ref, mode) IN
       /\ Commit(r.w)
       /\ last' = [Call("get_handle_to_read", "none", ref, mode, NoValue, r.w, r.out,
                        NoValue, "none", r.id, r.heads, 0) EXCEPT !.gets = r.gets]
       /\ UNCHANGED <<net, ad>>

\* a direct call of commons.get_handle_to_write
GetHandleToWrite ==
    \E ref \in Refs, mode \in Modes :
       LET r == get_handle_to_write(World, ref, mode) IN
       /\ Commit(r.w)
       /\ last' = Call("get_handle_to_write", "none", ref, mode, NoValue, r.w, r.out,
                       NoValue, "none", r.id, r.heads, r.opens)
       /\ UNCHANGED <<net, ad>>

\* a direct call of commons.get_path
GetPath ==
    \E ref \in Refs :
       /\ last' = [Call("get_path", "none", ref, "none", NoValue, World, get_path(ref).out,
                        NoValue, "none", 0, 0, 0) EXCEPT !.path = get_path(ref).path]
       /\ UNCHANGED <<fs, net, streams, ad>>

\* reader = <Format>Reader(ref, **kwargs), for the formats in F
NewReaderOf(F) ==
    \E fmt \in F, ref \in IORefs, skip \in BOOLEAN :
       LET i == ReaderInit(World, fmt, ref, skip) IN
       /\ Commit(i.w)
       /\ ad' = IF i.out = Ok THEN i.ad ELSE ad
       /\ last' = Call(IF skip THEN "Reader(get_buffer)" ELSE "Reader",
                       fmt, ref, ReaderMode(fmt), NoValue, i.w, i.out,
                       NoValue, "none", IF i.out = Ok THEN i.ad.buf ELSE 0, 0, 0)
       /\ UNCHANGED net

NewReader == NewReaderOf(Formats)

\* writer = <Format>Writer(ref, **kwargs), for the formats in F
NewWriterOf(F) ==
    \E fmt \in F, ref \in IORefs :
       LET i == WriterInit(World, fmt, ref) IN
       /\ Commit(i.w)
       /\ ad' = IF i.out = Ok THEN i.ad ELSE ad
       /\ last' = Call("Writer", fmt, ref, WriterMode(fmt), NoValue, i.w, i.out,
                       NoValue, "none", IF i.out = Ok THEN i.ad.buf ELSE 0, 0, 0)
       /\ UNCHANGED net

NewWriter == NewWriterOf(Formats)

\* the adapters whose read() / write() closes self.buffer itself
SelfClosing == {"pickle", "yaml"}

\* reader = PickleReader(ref, **kwargs) or YAMLReader(ref, **kwargs)
NewSelfClosingReader == NewReaderOf(SelfClosing)

\* writer = PickleWriter(ref, **kwargs) or YAMLWriter(ref, **kwargs)
NewSelfClosingWriter == NewWriterOf(SelfClosing)

\* reader = <Format>Reader(ref, mode=mode)
NewReaderMode ==
    \E fmt \in ReaderModeFormats, ref \in IORefs, mode \in Modes :
       LET i == ReaderInitMode(World, fmt, ref, mode) IN
       /\ Commit(i.w)
       /\ ad' = IF i.out = Ok THEN i.ad ELSE ad
       /\ last' = Call("Reader", fmt, ref, mode, NoValue, i.w, i.out,
                       NoValue, "none", IF i.out = Ok THEN i.ad.buf ELSE 0, 0, 0)
       /\ UNCHANGED net

\* writer = <Format>Writer(ref, mode=mode)
NewWriterMode ==
    \E fmt \in WriterModeFormats, ref \in IORefs, mode \in Modes :
       LET i == WriterInitMode(World, fmt, ref, mode) IN
       /\ Commit(i.w)
       /\ ad' = IF i.out = Ok THEN i.ad ELSE ad
       /\ last' = Call("Writer", fmt, ref, mode, NoValue, i.w, i.out,
                       NoValue, "none", IF i.out = Ok THEN i.ad.buf ELSE 0, 0, 0)
       /\ UNCHANGED net

\* reader.read()
AdRead ==
    /\ ad.cls = "Reader"
    /\ LET r == Reader_read(World, ad) IN
       /\ Commit(r.w)
       /\ last' = [Call("Reader.read", ad.fmt, ad.path, "none", NoValue, r.w, r.out,
                        r.val, "none", ad.buf, 0, 0) EXCEPT !.loads = r.loads]
    /\ UNCHANGED <<net, ad>>

\* the values handed to an adapter object: one table, one mapping
AdValues == {MixedTable, MapOf({"k1"})}

\* writer.write(v)
AdWrite ==
    /\ ad.cls = "Writer"
    /\ \E v \in AdValues :
          LET r == Writer_write(World, ad, v) IN
          /\ Commit(r.w)
          /\ last' = Call("Writer.write", ad.fmt, ad.path, "none", v, r.w, r.out,
                          NoValue, r.flag, ad.buf, 0, 0)
    /\ UNCHANGED <<net, ad>>

\* adapter.close_buffer()
AdCloseBuffer ==
    /\ ad.cls # "none"
    /\ LET r == close_buffer(World, ad) IN
       /\ Commit(r.w)
       /\ last' = Call("close_buffer", ad.fmt, ad.path, "none", NoValue, r.w, r.out,
                       NoValue, "none", ad.buf, 0, 0)
    /\ UNCHANGED <<net, ad>>

\* what the caller's code does inside a "with" block
Bodies == {"pass", "raise"}

\* with adapter: <body>
AdScoped ==
    /\ ad.cls # "none"
    /\ \E body \in Bodies :
          LET r == exit_block(World, ad, IF body = "raise" THEN BlockError ELSE Ok) IN
          /\ Commit(r.w)
          /\ last' = [Call("with", ad.fmt, ad.path, "none", NoValue, r.w, r.out,
                           NoValue, "none", ad.buf, 0, 0) EXCEPT !.body = body]
    /\ UNCHANGED <<net, ad>>

\* the modes the caller opens its own streams in
CallerModes == {"r", "rb"}

\* the caller opens a stream of its own, to hand it to the package
CallerOpen ==
    \E s \in Paths, mode \in CallerModes :
       LET o == Open(World, StrRef(s), mode, "caller") IN
       /\ o.out = Ok
       /\ Commit(o.w)
       /\ last' = NoCall
       /\ UNCHANGED <<net, ad>>

\* a stream object nothing refers to any more is finalized (closed) and gone
Collect ==
    \E i \in Slots :
       /\ streams[i].kind # "free"
       /\ ad.buf # i
       /\ ad.path # StreamRef(i)
       /\ LET w == Close(World, i, "gc") IN
          Commit([w EXCEPT !.streams[i] = FreeSlot])
       /\ last' = NoCall
       /\ UNCHANGED <<net, ad>>

\* os.remove(path), as the tests' tearDown does
Remove ==
    \E s \in Files :
       /\ fs[s] # Absent
       /\ fs' = [fs EXCEPT ![s] = Absent]
       /\ last' = NoCall
       /\ UNCHANGED <<net, streams, ad>>

\* the remote host changes how it answers
NetChange ==
    \E st \in Answers :
       /\ net # st
       /\ net' = st
       /\ last' = NoCall
       /\ UNCHANGED <<fs, streams, ad>>

\* the caller's own steps and the runtime's
Env == CallerOpen \/ Collect \/ Remove

\* the input resolver of commons.py called directly
NextResolver == IsUrl \/ IsBuffer \/ IsPath \/ GetPath \/ GetHandleToRead \/ GetHandleToWrite \/ NetChange \/ Env

SpecResolver == Init /\ [][NextResolver]_vars

\* the read_<format> / write_<format> free functions
NextFunctions ==
    \/ ReadCsv \/ ReadExcel \/ ReadH5 \/ ReadJson \/ ReadPickle \/ ReadYaml
    \/ WriteCsv \/ WriteExcel \/ WriteH5 \/ WriteJson \/ WritePickle \/ WriteYaml
    \/ Env

\* the adapters never ask the network: the host is either up or down
InitIO == Init /\ net \in {"200", "exc"}

SpecFunctions == InitIO /\ [][NextFunctions]_vars

\* the adapter objects used directly
NextAdapters ==
    NewReader \/ NewWriter \/ AdRead \/ AdWrite \/ AdCloseBuffer \/ AdScoped \/ Env

\* adapter objects are exercised with the host down
InitAdapters == Init /\ net = "exc"

SpecAdapters == InitAdapters /\ [][NextAdapters]_vars

\* the contents a file written by an earlier run of the package can have
StoredFiles ==
    {Empty} \cup UNION {{Enc(f, IF f = "h5" THEN H5Datasets(v) ELSE v, v) :
                             v \in {x \in AdValues : Encodable(f, x)}} : f \in Formats}

\* a process started next to a file left by an earlier run, the host down
InitStored ==
    /\ fs \in {[s \in Files |-> IF s \in Creatable THEN c ELSE Absent] : c \in StoredFiles}
    /\ net = "exc"
    /\ streams = [i \in 0..MaxStreams |-> FreeSlot]
    /\ ad = NoAdapter
    /\ last = NoCall

\* reader objects over stored files
NextReaders == NewReader \/ AdRead \/ AdCloseBuffer \/ CallerOpen \/ Collect

SpecReaders == InitStored /\ [][NextReaders]_vars

\* construction of adapters in any mode over stored files, and what
\* writers do next
NextConstruct == NewReaderMode \/ NewWriterMode \/ AdWrite

SpecConstruct == InitStored /\ [][NextConstruct]_vars

\* the serialized-object and structured-config adapter objects
NextClosing ==
    \/ NewSelfClosingReader \/ NewSelfClosingWriter
    \/ AdRead \/ AdWrite \/ AdCloseBuffer \/ AdScoped \/ CallerOpen \/ Collect

SpecClosing == InitAdapters /\ [][NextClosing]_vars

\* the hierarchical-array free functions alone
NextH5 == WriteH5 \/ ReadH5 \/ Collect

SpecH5 == InitIO /\ [][NextH5]_vars

Next == NextResolver \/ NextFunctions \/ NextAdapters \/ NextReaders \/ NextConstruct
          \/ NextClosing \/ NextH5

Spec == Init /\ [][Next]_vars

-----------------------------------------------------------------------------
(* Properties *)

IsPathLike(ref) == ref.t \in {"str", "Path"}

\* C1: for every format, write_<format> of a value to a path followed by
\* read_<format> of the same path returns a value equal to the one written.
C1_RoundTrip ==
    (/\ last.op = "read"
     /\ last.out = Ok
     /\ IsPathLike(last.ref)
     /\ Exists(World, last.ref.s)
     /\ fs[last.ref.s].fmt = last.fmt)
    => last.val = fs[last.ref.s].src

\* C2: read_<format> of an argument that is not an existing path, not a
\* stream and not a reachable URL fails with the unresolved-source ValueError.
C2_UnresolvedSource ==
    (/\ last.op = "read"
     /\ IsPathLike(last.ref)
     /\ ~Exists(World, last.ref.s)
     /\ ~is_url(last.ref))
    => last.out = UnresolvedSource

\* C3: write_<format> of a URL argument fails with the ValueError "Cannot
\* write to a url." and creates or truncates no file.
C3_WriteToUrl ==
    (last.op = "write" /\ is_url(last.ref))
    => (last.out = CannotWriteUrl /\ ~last.touched)

\* C4: is_url never raises; on a URL-like string whose HEAD request raises a
\* request exception it returns false; it returns true only if a HEAD request
\* was made and answered with status 200.
C4_IsUrl ==
    last.op = "is_url"
    => /\ last.out = Ok
       /\ last.flag \in {"True", "False"}
       /\ (last.ref.t = "str" /\ HasScheme(last.ref.s) /\ net = "exc") => last.flag = "False"
       /\ last.flag = "True" => (last.heads = 1 /\ net = "200")

\* C4 witness: is_url was called on a URL-like string while the host was
\* unreachable, and returned false
C4_Witness ==
    /\ last.op = "is_url"
    /\ last.ref.t = "str"
    /\ HasScheme(last.ref.s)
    /\ net = "exc"
    /\ last.out = Ok
    /\ last.flag = "False"

\* C5: write_<format> to a path that does not exist at write time (its
\* parent directory is missing) returns false instead of raising.
C5_MissingTargetReturnsFalse ==
    (/\ last.op = "write"
     /\ IsPathLike(last.ref)
     /\ last.ref.s \in ParentMissing)
    => (last.out = Ok /\ last.flag = "False")

\* C6: a stream the caller supplied already open is never closed by an
\* adapter or by a read_<format> / write_<format> free function.
C6_BorrowedNeverClosed ==
    \A i \in Slots : streams[i].owner = "caller" => streams[i].closedBy # "adapter"

\* C7: when a read_<format> / write_<format> free function called with a
\* path returns normally, no stream opened by the call is still open.
C7_ClosedBeforeReturn ==
    (/\ last.op \in {"read", "write"}
     /\ IsPathLike(last.ref)
     /\ last.out = Ok)
    => last.leaked = {}

\* C8: close_buffer never fails on any Reader or Writer, however it was
\* constructed, and leaves the adapter's stream closed.
C8_CloseIdempotent ==
    last.op = "close_buffer"
    => (last.out = Ok /\ ad.buf # 0 /\ streams[ad.buf].closed)

\* C9: get_handle_to_read fails with the unresolved-source ValueError exactly
\* when its reference is neither an existing path, nor a stream, nor a
\* reachable URL (a path naming a missing file yields that error, not a
\* file-not-found error).
C9_UnresolvedExactly ==
    (last.op = "get_handle_to_read" /\ last.mode \in ReadModes)
    => (last.out = UnresolvedSource
        <=> (/\ IsPathLike(last.ref)
             /\ ~Exists(World, last.ref.s)
             /\ ~is_url(last.ref)))

C11_UrlRead ==
    (last.op = "get_handle_to_read" /\ is_url(last.ref))
    => /\ last.gets = 1
       /\ is_gzip_tarball_path(last.ref)
          => /\ last.out = Ok
             /\ streams[last.handle].pending = FirstMember(RemoteContent(last.ref.s))
       /\ (~is_gzip_tarball_path(last.ref) /\ last.mode \in ReadModes)
          => /\ last.out = Ok
             /\ streams[last.handle].pending = RemoteContent(last.ref.s)

\* C12: read_<format> of a reachable URL returns the decoded content of the
\* response (obtained by HEAD, then GET); the URL string is not opened as a
\* local file.
C12_ReadFromUrl ==
    (last.op = "read" /\ is_url(last.ref))
    => /\ last.out = Decode(last.fmt, RemoteContent(last.ref.s)).out
       /\ last.val = Decode(last.fmt, RemoteContent(last.ref.s)).val

\* C13: right after the construction of any Reader or Writer, with any
\* accepted options, the adapter holds an open stream.
C13_EagerOpenStream ==
    (last.op \in {"Reader", "Reader(get_buffer)", "Writer"} /\ last.out = Ok)
    => (ad.buf # 0 /\ ~streams[ad.buf].closed)

\* the classifiers that hold of a reference
TagsOf(ref) ==
    {t \in {"stream", "path", "url"} :
        \/ t = "stream" /\ is_buffer(ref)
        \/ t = "path" /\ is_path_call(World, ref).out = Ok /\ is_path(World, ref)
        \/ t = "url" /\ is_url(ref)}

\* C14: for every source reference at most one of is_buffer, is_path and
\* is_url is true, so that the stream get_handle_to_read resolves to does not
\* depend on the order in which it tries them.
C14_OneTag ==
    \A ref \in Refs : Cardinality(TagsOf(ref)) <= 1

\* the calls of the three classifiers
Classifiers == {"is_url", "is_buffer", "is_path"}

\* C15: a classifier call opens, creates, modifies and closes nothing; is_url
\* issues its HEAD request exactly when the argument is a string with a URL
\* scheme and otherwise returns false without asking the network; is_buffer
\* and is_path never ask the network.
C15_ClassifiersPure ==
    [][last'.op \in Classifiers
       => /\ fs' = fs /\ streams' = streams /\ ad' = ad /\ net' = net
          /\ last'.opened = {} /\ ~last'.touched
          /\ last'.op = "is_url"
             => /\ last'.heads = 1 <=> (last'.ref.t = "str" /\ HasScheme(last'.ref.s))
                /\ last'.heads = 0 => (last'.out = Ok /\ last'.flag = "False")
          /\ last'.op # "is_url" => last'.heads = 0]_vars

\* C15 witness: is_url was called on an open stream and answered false
\* without a request
C15_Witness ==
    /\ last.op = "is_url"
    /\ last.ref.t = "stream"
    /\ ~streams[last.ref.id].closed
    /\ last.flag = "False"
    /\ last.heads = 0

\* C16: get_path of an open stream returns the path given by the stream's
\* name, and get_path of a string or a Path returns that path (so that a
\* Writer can be built from a caller's open file stream).
C16_GetPath ==
    last.op = "get_path"
    => /\ last.out = Ok
       /\ last.ref.t = "stream" => last.path = PathRef(streams[last.ref.id].name)
       /\ last.ref.t # "stream" => last.path = PathRef(last.ref.s)

\* C17: a read() whose library decode fails ends in that error and returns
\* no value; the decode is attempted once per read() and never retried, and
\* a read() that ends normally returns what the one decode produced.
C17_DecodeOnce ==
    last.op = "Reader.read"
    => /\ last.loads <= 1
       /\ last.out = DecodeError => (last.val = NoValue /\ last.loads = 1)
       /\ last.out # Ok => last.val = NoValue
       /\ last.out = Ok => (last.val # NoValue /\ last.loads = 1)

\* C17 witness: a JSONReader.read() failed in json.load, after one attempt
C17_Witness ==
    /\ last.op = "Reader.read"
    /\ last.fmt = "json"
    /\ last.out = DecodeError
    /\ last.loads = 1
    /\ last.val = NoValue

\* C18: a Reader or Writer built from a stream the caller holds open, of any
\* kind, has that very stream as its own and opens no new handle.
C18_BorrowedStreamKept ==
    (/\ last.op \in {"Reader", "Writer"}
     /\ last.ref.t = "stream"
     /\ ~streams[last.ref.id].closed)
    => /\ last.out = Ok
       /\ last.handle = last.ref.id
       /\ last.opened = {}

\* C19: when an adapter is used as a scoped block its stream is closed at
\* the end of the block on every exit path, and an exception raised inside
\* the block reaches the caller.
C19_ScopedBlock ==
    last.op = "with"
    => /\ ad.buf # 0
       /\ streams[ad.buf].closed
       /\ last.body = "raise" => last.out = BlockError
       /\ last.body = "pass" => last.out = Ok

\* C20 as stated: a Writer built in a write mode on a path truncates the
\* file at construction, a failing write() brings nothing back, and the
\* construction of a Reader never changes any file.
C20_ReaderNeverChanges ==
    [][/\ (last'.op = "Writer" /\ last'.out = Ok /\ last'.mode \in WriteModes)
          => fs'[last'.ref.s] = Empty
       /\ (last'.op = "Writer.write" /\ last'.out # Ok) => fs' = fs
       /\ last'.op = "Reader" => fs' = fs]_vars

\* C20: a Writer built in a write mode on a path truncates the file at
\* construction, before any write(), and a failing write() brings nothing
\* back; a Reader built in a read mode changes no file, and a Reader built
\* in a write mode on a path truncates the file like a Writer.
C20_TruncateAtConstruction ==
    [][/\ (last'.op = "Writer" /\ last'.out = Ok /\ last'.mode \in WriteModes)
          => fs'[last'.ref.s] = Empty
       /\ (last'.op = "Writer.write" /\ last'.out # Ok) => fs' = fs
       /\ (last'.op = "Reader" /\ last'.mode \in ReadModes) => fs' = fs
       /\ (/\ last'.op = "Reader" /\ last'.out = Ok
           /\ last'.mode \in WriteModes /\ IsPathLike(last'.ref))
          => fs'[last'.ref.s] = Empty]_vars

\* C20 witness: a Writer was built on an existing, non-empty file and the
\* file is empty although nothing was written
C20_Witness ==
    /\ last.op = "Writer"
    /\ last.out = Ok
    /\ last.mode \in WriteModes
    /\ last.existed
    /\ last.touched
    /\ fs[last.ref.s] = Empty

C22_SelfClosing ==
    [][/\ (last'.op \in {"Reader.read", "Writer.write"} /\ ad.fmt \in SelfClosing)
          => /\ last'.out = Ok => (ad.buf # 0 /\ streams'[ad.buf].closed)
             /\ (ad.buf # 0 /\ streams[ad.buf].closed)
                => /\ last'.out # Ok
                   /\ last'.val = NoValue
                   /\ last'.flag = "none"
                   /\ fs' = fs
                   /\ streams' = streams
             /\ (ad.fmt = "pickle" /\ ad.buf # 0 /\ last'.out # Ok)
                => streams'[ad.buf].closed = streams[ad.buf].closed
       /\ (/\ last'.op \in {"close_buffer", "with"}
           /\ ad.fmt \in SelfClosing
           /\ ad.buf # 0
           /\ streams[ad.buf].closed)
          => /\ last'.out = IF last'.body = "raise" THEN BlockError ELSE Ok
             /\ fs' = fs
             /\ streams' = streams]_vars

\* C22 witness: a PickleReader.read() returned a value and left the
\* adapter's stream closed
C22_Witness ==
    /\ last.op = "Reader.read"
    /\ last.fmt = "pickle"
    /\ last.out = Ok
    /\ last.val # NoValue
    /\ ad.buf # 0
    /\ streams[ad.buf].closed
    /\ streams[ad.buf].closedBy = "adapter"

====
